---- MODULE Spec2Model ----
(***************************************************************************)
(* Model of the sentinel red-black tree engine zelix::stl::pmr::rb_tree    *)
(* (include/zelix/rb_tree.h) and of its map and set adapters.              *)
(*                                                                         *)
(* Memory is a set of cells indexed by address.  Every cell carries the    *)
(* fields of __rb_node / __rb_pair (key, value, red, left, right, parent). *)
(* The tree never orders addresses, it only compares them for equality, so *)
(* the allocator is free to place the node of key k at address k; the node *)
(* that insert allocates for a key that is already present is placed at    *)
(* the one remaining address, Scratch.                                     *)
(***************************************************************************)
EXTENDS Integers, FiniteSets, Sequences, TLC

\* ------------------------------------------------------------------ bounds
MaxKey == 6          \* keys of the key-only tree are 1..MaxKey
MapMaxKey == 3       \* keys of the map are 1..MapMaxKey
MaxVal == 2          \* values of the map are 1..MaxVal
MaxLen == 7          \* insert is not called once len_ has reached MaxLen
MaxGarbage == 1      \* the indeterminate initial len_ is one of the
                     \* 2*MaxGarbage+1 values of size_t nearest to zero
MinLen == 0 - MaxGarbage   \* erase is not called once len_ is down to MinLen
MaxDeepKey == 10     \* keys of the tree that is filled in ascending order
                     \* are 1..MaxDeepKey

Keys == 1..MaxKey
DeepKeys == 1..MaxDeepKey
MaxAgreeKey == 4     \* keys given to the two revisions side by side are
                     \* 1..MaxAgreeKey
AgreeKeys == 1..MaxAgreeKey
MapKeys == 1..MapMaxKey
Values == 1..MaxVal

\* --------------------------------------------------------------- addresses
nil_ == 0                                   \* address of the sentinel
NullPtr == -1                               \* nullptr
NoValue == 0                                \* Value() / no value (set form)
MaxOf(a, b) == IF a > b THEN a ELSE b
MaxAddr == MaxOf(MaxOf(MaxOf(MaxKey, MapMaxKey), MaxDeepKey), MaxAgreeKey)
Scratch == MaxAddr + 1
Addr == 0..Scratch

VARIABLES
    root_,      \* rb_tree::root_
    len_,       \* rb_tree::len_
    key,        \* key[a]    : __rb_node::key of the cell at a
    value,      \* value[a]  : __rb_pair::value
    red,        \* red[a]    : colour, TRUE = red
    left,       \* left[a], right[a], parent[a] : the three links
    right,
    parent,
    allocated,  \* addresses handed out by allocate and not yet deallocated
    op,         \* the public operation that ran last
    ret,        \* how it completed: "void", "true", "false", "node" (search
                \* returned a node), "element_not_found" (the exception left
                \* the call)
    fixup_x,    \* the x that the last erase passed to delete_fixup
                \* (NullPtr when delete_fixup was not called)
    script,     \* how many calls of Scenario the calls made since
                \* construction are, or OffScript (a position past its
                \* end) when they are not a prefix of it
    ref,        \* the reference set that SpecRoundTrip and SpecRefine run
                \* side by side with the tree
    dealloc_log, \* the addresses that ~rb_tree() has passed to
                \* deallocate, in the order of the calls
    loops,      \* SpecDeep: the iterations that the loop of insert_fixup
                \* made in the last insert and the loop of delete_fixup in
                \* the last erase
    old         \* SpecAgree: the tree of rbtree.h (the key-only revision
                \* with find_node) that is given the same calls: its heap
                \* old.t and how its last call completed, old.ret

vars == <<root_, len_, key, value, red, left, right, parent, allocated,
          op, ret, fixup_x, script, ref, dealloc_log, loops, old>>

\* The mutable part of the heap that the private helpers work on.
Tree == [root |-> root_, key |-> key, value |-> value, red |-> red,
         left |-> left, right |-> right, parent |-> parent,
         live |-> allocated]

\* ------------------------------------------------------- memory resource
\* ChildrenAllocator::allocate(key, value, red, l, r, p): address of the new
\* cell.
allocate_addr(t, k) == IF k \in t.live THEN Scratch ELSE k

allocate(t, a, k, v, r, l, rt, p) ==
    [t EXCEPT !.key[a] = k, !.value[a] = v, !.red[a] = r,
              !.left[a] = l, !.right[a] = rt, !.parent[a] = p,
              !.live = @ \cup {a}]

\* ChildrenAllocator::deallocate(p): the cell is released, its content is
\* no longer meaningful.
deallocate(t, a) ==
    [t EXCEPT !.key[a] = 0, !.value[a] = NoValue, !.red[a] = FALSE,
              !.left[a] = NullPtr, !.right[a] = NullPtr,
              !.parent[a] = NullPtr, !.live = @ \ {a}]

\* ------------------------------------------------------------- rotations
\* Every helper takes the heap as a parameter and returns the heap after the
\* statements it stands for; y is the local of the rotation.

\* left_rotate, lines 401-403: x->right = y->left and its parent link
left_rotate_1(t, x, y) ==
    LET t1 == [t EXCEPT !.right[x] = t.left[y]]
    IN  IF t1.left[y] # nil_
        THEN [t1 EXCEPT !.parent[t1.left[y]] = x] ELSE t1

\* left_rotate, lines 405-411: y takes the place of x under x's parent
left_rotate_2(t, x, y) ==
    LET t1 == [t EXCEPT !.parent[y] = t.parent[x]]
    IN  IF t1.parent[x] = nil_ THEN [t1 EXCEPT !.root = y]
        ELSE IF x = t1.left[t1.parent[x]]
             THEN [t1 EXCEPT !.left[t1.parent[x]] = y]
             ELSE [t1 EXCEPT !.right[t1.parent[x]] = y]

\* left_rotate that leaves out x->parent = y
left_rotate_3_parent_kept(t, x, y) == [t EXCEPT !.left[y] = x]

\* left_rotate, lines 413-414
left_rotate_3(t, x, y) == [t EXCEPT !.left[y] = x, !.parent[x] = y]

left_rotate(t, x) ==
    left_rotate_3(
        left_rotate_2(left_rotate_1(t, x, t.right[x]), x, t.right[x]),
        x, t.right[x])

\* right_rotate, lines 421-424
right_rotate_1(t, x, y) ==
    LET t1 == [t EXCEPT !.left[x] = t.right[y]]
    IN  IF t1.right[y] # nil_
        THEN [t1 EXCEPT !.parent[t1.right[y]] = x] ELSE t1

\* right_rotate, lines 426-433
right_rotate_2(t, x, y) ==
    LET t1 == [t EXCEPT !.parent[y] = t.parent[x]]
    IN  IF t1.parent[x] = nil_ THEN [t1 EXCEPT !.root = y]
        ELSE IF x = t1.right[t1.parent[x]]
             THEN [t1 EXCEPT !.right[t1.parent[x]] = y]
             ELSE [t1 EXCEPT !.left[t1.parent[x]] = y]

\* right_rotate, lines 435-436
right_rotate_3(t, x, y) == [t EXCEPT !.right[y] = x, !.parent[x] = y]

right_rotate(t, x) ==
    right_rotate_3(
        right_rotate_2(right_rotate_1(t, x, t.left[x]), x, t.left[x]),
        x, t.left[x])

\* ----------------------------------------------------------- insert_fixup
\* Case 1 (lines 449-451, 473-475): parent and uncle y black, grandparent
\* red.
insert_case1(t, z, y) ==
    [t EXCEPT !.red[t.parent[z]] = FALSE,
              !.red[y] = FALSE,
              !.red[t.parent[t.parent[z]]] = TRUE]

\* Case 2, parent is a left child (lines 456-461): the z the code goes on
\* with, and the heap after the rotation.
insert_case2_left_z(t, z) ==
    IF z = t.right[t.parent[z]] THEN t.parent[z] ELSE z

insert_case2_left(t, z) ==
    IF z = t.right[t.parent[z]] THEN left_rotate(t, t.parent[z]) ELSE t

\* Case 3, parent is a left child (lines 463-465)
insert_case3_left(t, z) ==
    right_rotate([t EXCEPT !.red[t.parent[z]] = FALSE,
                           !.red[t.parent[t.parent[z]]] = TRUE],
                 t.parent[t.parent[z]])

\* Case 2, parent is a right child (lines 480-485)
insert_case2_right_z(t, z) ==
    IF z = t.left[t.parent[z]] THEN t.parent[z] ELSE z

insert_case2_right(t, z) ==
    IF z = t.left[t.parent[z]] THEN right_rotate(t, t.parent[z]) ELSE t

\* Case 3, parent is a right child (lines 487-489)
insert_case3_right(t, z) ==
    left_rotate([t EXCEPT !.red[t.parent[z]] = FALSE,
                          !.red[t.parent[t.parent[z]]] = TRUE],
                t.parent[t.parent[z]])

\* The while loop of insert_fixup (lines 442-492).
RECURSIVE insert_fixup_loop(_, _)
insert_fixup_loop(t, z) ==
    IF ~ t.red[t.parent[z]]
    THEN t
    ELSE IF t.parent[z] = t.left[t.parent[t.parent[z]]]
    THEN IF t.red[t.right[t.parent[t.parent[z]]]]
         THEN insert_fixup_loop(
                  insert_case1(t, z, t.right[t.parent[t.parent[z]]]),
                  t.parent[t.parent[z]])
         ELSE insert_fixup_loop(
                  insert_case3_left(insert_case2_left(t, z),
                                    insert_case2_left_z(t, z)),
                  insert_case2_left_z(t, z))
    ELSE IF t.red[t.left[t.parent[t.parent[z]]]]
         THEN insert_fixup_loop(
                  insert_case1(t, z, t.left[t.parent[t.parent[z]]]),
                  t.parent[t.parent[z]])
         ELSE insert_fixup_loop(
                  insert_case3_right(insert_case2_right(t, z),
                                     insert_case2_right_z(t, z)),
                  insert_case2_right_z(t, z))

\* line 493: root_->red = false
blacken_root(t) == [t EXCEPT !.red[t.root] = FALSE]

\* insert_fixup without its loop: only the root is blackened.
insert_fixup_no_loop(t, z) == blacken_root(t)

\* insert_fixup without the final root_->red = false.
insert_fixup_no_root_black(t, z) == insert_fixup_loop(t, z)

\* insert_fixup(z): the loop, then root_->red = false.
insert_fixup(t, z) == blacken_root(insert_fixup_loop(t, z))

\* --------------------------------------------------------- unified_insert
\* The descent of unified_insert (lines 368-382) from x with trailing
\* pointer y: the pair <<y, dup>>, dup saying that an equal key was met.
RECURSIVE insert_descend(_, _, _, _)
insert_descend(t, c, x, y) ==
    IF x = nil_ THEN <<y, FALSE>>
    ELSE IF t.key[c] < t.key[x] THEN insert_descend(t, c, t.left[x], x)
    ELSE IF t.key[x] < t.key[c] THEN insert_descend(t, c, t.right[x], x)
    ELSE <<x, TRUE>>

\* insert_link that links c on the other side of y.
insert_link_wrong_side(t, c, y) ==
    IF y = nil_ THEN [t EXCEPT !.parent[c] = y, !.root = c]
    ELSE IF t.key[c] < t.key[y]
         THEN [t EXCEPT !.parent[c] = y, !.right[y] = c]
         ELSE [t EXCEPT !.parent[c] = y, !.left[y] = c]

\* lines 384-392: c is linked below y
insert_link(t, c, y) ==
    IF y = nil_ THEN [t EXCEPT !.parent[c] = y, !.root = c]
    ELSE IF t.key[c] < t.key[y]
         THEN [t EXCEPT !.parent[c] = y, !.left[y] = c]
         ELSE [t EXCEPT !.parent[c] = y, !.right[y] = c]

\* unified_insert after the descent d
unified_insert_at(t, c, d) ==
    IF d[2] THEN deallocate(t, c)
    ELSE insert_fixup(insert_link(t, c, d[1]), c)

\* unified_insert(c) on the heap t, without the len_++ that precedes the
\* descent (len_ is not part of t; see Insert).
unified_insert(t, c) ==
    unified_insert_at(t, c, insert_descend(t, c, t.root, nil_))

\* ----------------------------------------------------------------- search
\* except::element_not_found leaving search, as a value no address equals.
element_not_found == -2

RECURSIVE search_from(_, _, _)
search_from(t, x, k) ==
    IF x = nil_ THEN element_not_found
    ELSE IF k < t.key[x] THEN search_from(t, t.left[x], k)
    ELSE IF t.key[x] < k THEN search_from(t, t.right[x], k)
    ELSE x

\* search that returns the sentinel on a miss instead of throwing.
search_nil_on_miss(t, k) ==
    IF search_from(t, t.root, k) = element_not_found THEN nil_
    ELSE search_from(t, t.root, k)

search(t, k) == search_from(t, t.root, k)

\* ---------------------------------------------------------------- minimum
RECURSIVE minimum(_, _)
minimum(t, x) == IF t.left[x] # nil_ THEN minimum(t, t.left[x]) ELSE x

\* ------------------------------------------------------------- transplant
\* lines 499-504
transplant_1(t, u, v) ==
    IF t.parent[u] = nil_ THEN [t EXCEPT !.root = v]
    ELSE IF u = t.left[t.parent[u]]
         THEN [t EXCEPT !.left[t.parent[u]] = v]
         ELSE [t EXCEPT !.right[t.parent[u]] = v]

\* line 505
transplant_2(t, u, v) == [t EXCEPT !.parent[v] = t.parent[u]]

transplant(t, u, v) == transplant_2(transplant_1(t, u, v), u, v)

\* ----------------------------------------------------------- delete_fixup
\* x is a left child.  Case 1 (lines 515-523): a red sibling is rotated up.
delete_case1_left(t, x) ==
    IF t.red[t.right[t.parent[x]]]
    THEN left_rotate([t EXCEPT !.red[t.right[t.parent[x]]] = FALSE,
                               !.red[t.parent[x]] = TRUE],
                     t.parent[x])
    ELSE t

\* Case 2 (lines 527-528): w red
delete_case2(t, w) == [t EXCEPT !.red[w] = TRUE]

\* Case 3 (lines 532-539), w the sibling of x
delete_case3_left(t, x, w) ==
    IF ~ t.red[t.right[w]]
    THEN right_rotate([t EXCEPT !.red[t.left[w]] = FALSE, !.red[w] = TRUE],
                      w)
    ELSE t

\* Case 4 (lines 541-544), w the sibling of x
delete_case4_left(t, x, w) ==
    left_rotate([t EXCEPT !.red[w] = t.red[t.parent[x]],
                          !.red[t.parent[x]] = FALSE,
                          !.red[t.right[w]] = FALSE],
                t.parent[x])

\* line 538 / 540: w = x->parent->right, then case 4
delete_case4_left_reread(t, x) == delete_case4_left(t, x, t.right[t.parent[x]])

\* Cases 3 and 4 (lines 530-546); the sibling is read again after case 3
delete_case34_left(t, x) ==
    delete_case4_left_reread(delete_case3_left(t, x, t.right[t.parent[x]]), x)

\* One iteration for a left child x after case 1: the heap and the next x.
delete_step_left(t, x) ==
    IF ~ t.red[t.left[t.right[t.parent[x]]]]
       /\ ~ t.red[t.right[t.right[t.parent[x]]]]
    THEN [t |-> delete_case2(t, t.right[t.parent[x]]), x |-> t.parent[x]]
    ELSE [t |-> delete_case34_left(t, x),
          x |-> delete_case34_left(t, x).root]

\* x is a right child.  Case 1 (lines 550-558)
delete_case1_right(t, x) ==
    IF t.red[t.left[t.parent[x]]]
    THEN right_rotate([t EXCEPT !.red[t.left[t.parent[x]]] = FALSE,
                                !.red[t.parent[x]] = TRUE],
                      t.parent[x])
    ELSE t

\* Case 3 (lines 568-575)
delete_case3_right(t, x, w) ==
    IF ~ t.red[t.left[w]]
    THEN left_rotate([t EXCEPT !.red[t.right[w]] = FALSE, !.red[w] = TRUE],
                     w)
    ELSE t

\* Case 4 (lines 577-580)
delete_case4_right(t, x, w) ==
    right_rotate([t EXCEPT !.red[w] = t.red[t.parent[x]],
                           !.red[t.parent[x]] = FALSE,
                           !.red[t.left[w]] = FALSE],
                 t.parent[x])

\* line 574 / 576: w = x->parent->left, then case 4
delete_case4_right_reread(t, x) == delete_case4_right(t, x, t.left[t.parent[x]])

\* Cases 3 and 4 (lines 566-582)
delete_case34_right(t, x) ==
    delete_case4_right_reread(delete_case3_right(t, x, t.left[t.parent[x]]), x)

delete_step_right(t, x) ==
    IF ~ t.red[t.right[t.left[t.parent[x]]]]
       /\ ~ t.red[t.left[t.left[t.parent[x]]]]
    THEN [t |-> delete_case2(t, t.left[t.parent[x]]), x |-> t.parent[x]]
    ELSE [t |-> delete_case34_right(t, x),
          x |-> delete_case34_right(t, x).root]

\* One iteration of the loop of delete_fixup (lines 513-583).
delete_step(t, x) ==
    IF x = t.left[t.parent[x]]
    THEN delete_step_left(delete_case1_left(t, x), x)
    ELSE delete_step_right(delete_case1_right(t, x), x)

\* The while loop of delete_fixup (lines 511-584), on the pair r of heap and
\* x: the pair it ends with.
RECURSIVE delete_fixup_run(_)
delete_fixup_run(r) ==
    IF ~ (r.x # r.t.root /\ r.t.red[r.x] = FALSE)
    THEN r
    ELSE delete_fixup_run(delete_step(r.t, r.x))

delete_fixup_loop(t, x) == delete_fixup_run([t |-> t, x |-> x])

\* line 585: x->red = false
blacken(r) == [r.t EXCEPT !.red[r.x] = FALSE]

\* delete_fixup without its loop: only x is blackened.
delete_fixup_no_loop(t, x) == blacken([t |-> t, x |-> x])

\* delete_fixup(x): the loop, then x->red = false.
delete_fixup(t, x) == blacken(delete_fixup_loop(t, x))

\* ------------------------------------------------------------------ erase
\* lines 270-271: y->right = z->right; y->right->parent = y
erase_adopt_right(t, z, y) ==
    [t EXCEPT !.right[y] = t.right[z], !.parent[t.right[z]] = y]

\* lines 275-277: y->left = z->left; y->left->parent = y; y->red = z->red
erase_adopt_left(t, z, y) ==
    [t EXCEPT !.left[y] = t.left[z], !.parent[t.left[z]] = y,
              !.red[y] = t.red[z]]

\* lines 265-272: the successor y of z is detached from its position
erase_detach_successor(t, z, y) ==
    IF t.parent[y] = z
    THEN [t EXCEPT !.parent[t.right[y]] = y]
    ELSE erase_adopt_right(transplant(t, y, t.right[y]), z, y)

\* lines 274-277: y takes the place, the left subtree and the colour of z
erase_replace(t, z, y) == erase_adopt_left(transplant(t, z, y), z, y)

\* Lines 247-278 of erase, after search returned the node z: z is unlinked.
\* The result is the heap, x and y_original_color.
erase_unlink(t, z) ==
    IF t.left[z] = nil_
    THEN [t |-> transplant(t, z, t.right[z]), x |-> t.right[z],
          y_original_color |-> t.red[z]]
    ELSE IF t.right[z] = nil_
    THEN [t |-> transplant(t, z, t.left[z]), x |-> t.left[z],
          y_original_color |-> t.red[z]]
    ELSE [t |-> erase_replace(
                    erase_detach_successor(t, z, minimum(t, t.right[z])),
                    z, minimum(t, t.right[z])),
          x |-> t.right[minimum(t, t.right[z])],
          y_original_color |-> t.red[minimum(t, t.right[z])]]

\* Lines 280-282 of erase on the result u of erase_unlink: z is deallocated,
\* then delete_fixup(x) runs if the node removed from its position was black.
erase_finish(u, z) ==
    IF ~ u.y_original_color
    THEN delete_fixup(deallocate(u.t, z), u.x)
    ELSE deallocate(u.t, z)

erase_node(t, z) == erase_finish(erase_unlink(t, z), z)

\* ------------------------------------------- the fixup loops, step by step
\* an iteration of the loop of insert_fixup that neither recolours nor
\* rotates nor moves z
insert_fixup_step_idle(r) == r

\* One iteration of the while loop of insert_fixup (lines 442-492) on the
\* pair r of heap and z: the pair after the iteration.
insert_fixup_step(r) ==
    IF r.t.parent[r.z] = r.t.left[r.t.parent[r.t.parent[r.z]]]
    THEN IF r.t.red[r.t.right[r.t.parent[r.t.parent[r.z]]]]
         THEN [t |-> insert_case1(r.t, r.z,
                                  r.t.right[r.t.parent[r.t.parent[r.z]]]),
               z |-> r.t.parent[r.t.parent[r.z]]]
         ELSE [t |-> insert_case3_left(insert_case2_left(r.t, r.z),
                                       insert_case2_left_z(r.t, r.z)),
               z |-> insert_case2_left_z(r.t, r.z)]
    ELSE IF r.t.red[r.t.left[r.t.parent[r.t.parent[r.z]]]]
         THEN [t |-> insert_case1(r.t, r.z,
                                  r.t.left[r.t.parent[r.t.parent[r.z]]]),
               z |-> r.t.parent[r.t.parent[r.z]]]
         ELSE [t |-> insert_case3_right(insert_case2_right(r.t, r.z),
                                        insert_case2_right_z(r.t, r.z)),
               z |-> insert_case2_right_z(r.t, r.z)]

RECURSIVE insert_fixup_iterations(_, _)
\* the number of iterations the loop of insert_fixup makes from r; the loop
\* is left alone after n iterations, and n + 1 says it had not exited
insert_fixup_iterations(r, n) ==
    IF ~ r.t.red[r.t.parent[r.z]] THEN 0
    ELSE IF n = 0 THEN 1
    ELSE 1 + insert_fixup_iterations(insert_fixup_step(r), n - 1)

RECURSIVE insert_fixup_steps(_, _)
\* the pair that the loop of insert_fixup has come to from r when it exits,
\* or after n iterations
insert_fixup_steps(r, n) ==
    IF ~ r.t.red[r.t.parent[r.z]] \/ n = 0 THEN r
    ELSE insert_fixup_steps(insert_fixup_step(r), n - 1)

RECURSIVE delete_fixup_iterations(_, _)
\* the same for the loop of delete_fixup (lines 511-584)
delete_fixup_iterations(r, n) ==
    IF ~ (r.x # r.t.root /\ r.t.red[r.x] = FALSE) THEN 0
    ELSE IF n = 0 THEN 1
    ELSE 1 + delete_fixup_iterations(delete_step(r.t, r.x), n - 1)

\* the heap in which insert(k) of an absent key calls insert_fixup: the node
\* is allocated at c and linked below the leaf the descent ends at
insert_before_fixup(t, c, k) ==
    insert_link(allocate(t, c, k, NoValue, TRUE, nil_, nil_, NullPtr), c,
                insert_descend(
                    allocate(t, c, k, NoValue, TRUE, nil_, nil_, NullPtr),
                    c, t.root, nil_)[1])

\* the heap and the x with which erase of the node z calls delete_fixup
erase_before_fixup(u, z) == [t |-> deallocate(u.t, z), x |-> u.x]

\* no loop of the model runs longer than the longest path of a tree that
\* uses every address
IterBound == MaxAddr + 1

\* the iterations of the loop of insert_fixup in insert(k), k not in the tree
insert_iterations(t, k) ==
    insert_fixup_iterations([t |-> insert_before_fixup(t, k, k), z |-> k],
                            IterBound)

\* the iterations of the loop of delete_fixup in the erase of the node z
\* (none when delete_fixup is not called)
erase_iterations(t, z) ==
    IF erase_unlink(t, z).y_original_color THEN 0
    ELSE delete_fixup_iterations(erase_before_fixup(erase_unlink(t, z), z),
                                 IterBound)

\* ---------------------------------------------------------------- iterator
\* An iterator is the address held in its node_ field.

\* end(): the iterator at the sentinel
end == nil_

RECURSIVE begin_descend(_, _)
\* begin(): while (x->left != nil_) x = x->left
begin_descend(t, x) ==
    IF t.left[x] # nil_ THEN begin_descend(t, t.left[x]) ELSE x

\* begin(): end() for an empty tree, else the leftmost node under the root
begin(t) == IF t.root = nil_ THEN end ELSE begin_descend(t, t.root)

RECURSIVE inc_descend(_, _)
\* operator++, right child present: while (node_->left != nil_) descend
inc_descend(t, n) ==
    IF t.left[n] # nil_ THEN inc_descend(t, t.left[n]) ELSE n

RECURSIVE inc_ascend(_, _, _)
\* operator++, no right child: while (y != nil_ && node_ == y->right) climb;
\* the iterator ends at y
inc_ascend(t, n, y) ==
    IF y # nil_ /\ n = t.right[y] THEN inc_ascend(t, y, t.parent[y]) ELSE y

\* operator++ that climbs while the node is a left child
operator_inc_wrong_side(t, n) ==
    IF t.right[n] # nil_
    THEN inc_descend(t, t.right[n])
    ELSE IF t.parent[n] # nil_ /\ n = t.left[t.parent[n]]
         THEN inc_ascend(t, t.parent[n], t.parent[t.parent[n]])
         ELSE t.parent[n]

\* operator++
operator_inc(t, n) ==
    IF t.right[n] # nil_
    THEN inc_descend(t, t.right[n])
    ELSE inc_ascend(t, n, t.parent[n])

RECURSIVE dec_descend(_, _)
\* operator--, left child present: while (node_->right != nil_) descend
dec_descend(t, n) ==
    IF t.right[n] # nil_ THEN dec_descend(t, t.right[n]) ELSE n

RECURSIVE dec_ascend(_, _, _)
\* operator--, no left child: while (y != nil_ && node_ == y->left) climb
dec_ascend(t, n, y) ==
    IF y # nil_ /\ n = t.left[y] THEN dec_ascend(t, y, t.parent[y]) ELSE y

\* operator--
operator_dec(t, n) ==
    IF t.left[n] # nil_
    THEN dec_descend(t, t.left[n])
    ELSE dec_ascend(t, n, t.parent[n])

RECURSIVE iterate(_, _, _)
\* for (it = n; it != end(); ++it): the keys at the nodes visited, in the
\* order of the visits; at most fuel steps are taken
iterate(t, n, fuel) ==
    IF n = end \/ fuel = 0 THEN << >>
    ELSE << t.key[n] >> \o iterate(t, operator_inc(t, n), fuel - 1)

\* ------------------------------------------- rbtree.h, the older revision
\* rotations, insert_fixup, transplant, delete_fixup and minimum of rbtree.h
\* (lines 175-372) are, token for token, those of rb_tree.h (lines 398-594);
\* the operators above stand for both.  The public operations differ.

\* rb_tree() of rbtree.h: the heap that holds the sentinel alone
rbtree_constructed ==
    [root |-> nil_,
     key |-> [a \in Addr |-> 0],
     value |-> [a \in Addr |-> NoValue],
     red |-> [a \in Addr |-> FALSE],
     left |-> [a \in Addr |-> IF a = nil_ THEN nil_ ELSE NullPtr],
     right |-> [a \in Addr |-> IF a = nil_ THEN nil_ ELSE NullPtr],
     parent |-> [a \in Addr |-> IF a = nil_ THEN nil_ ELSE NullPtr],
     live |-> {nil_}]

RECURSIVE find_node(_, _, _)
\* find_node(x, key): the node of the key below x, nil_ when there is none
find_node(t, x, k) ==
    IF x = nil_ THEN nil_
    ELSE IF k < t.key[x] THEN find_node(t, t.left[x], k)
    ELSE IF t.key[x] < k THEN find_node(t, t.right[x], k)
    ELSE x

\* insert of rbtree.h after z was allocated at c and the descent ended with
\* d: a duplicate is deallocated, else z is linked and insert_fixup runs
rbtree_insert_at(t, c, d) ==
    IF d[2] THEN deallocate(t, c)
    ELSE insert_fixup(insert_link(t, c, d[1]), c)

\* insert(key) of rbtree.h
rbtree_insert(t, k) ==
    rbtree_insert_at(
        allocate(t, allocate_addr(t, k), k, NoValue, TRUE, nil_, nil_,
                 NullPtr),
        allocate_addr(t, k),
        insert_descend(
            allocate(t, allocate_addr(t, k), k, NoValue, TRUE, nil_, nil_,
                     NullPtr),
            allocate_addr(t, k), t.root, nil_))

\* erase(key) of rbtree.h: false when find_node returns nil_
rbtree_erase(t, k) ==
    IF find_node(t, t.root, k) = nil_
    THEN [t |-> t, ret |-> "false"]
    ELSE [t |-> erase_node(t, find_node(t, t.root, k)), ret |-> "true"]

\* contains(key) of rbtree.h
rbtree_contains(t, k) ==
    [t |-> t,
     ret |-> IF find_node(t, t.root, k) # nil_ THEN "true" ELSE "false"]

\* ------------------------------------------------------ public operations
\* The heap t becomes the heap of the next state.
Store(t) ==
    /\ root_' = t.root
    /\ key' = t.key
    /\ value' = t.value
    /\ red' = t.red
    /\ left' = t.left
    /\ right' = t.right
    /\ parent' = t.parent
    /\ allocated' = t.live

heap == <<root_, key, value, red, left, right, parent, allocated>>

size == len_
empty == (len_ = 0)

\* rb_tree(): the sentinel is allocated and made to point at itself, root_
\* is the sentinel.  len_ has no initializer: its value is indeterminate.
\* len_ is a size_t: the integer r stands for the value r modulo 2^64, so
\* that -1 is SIZE_MAX, len_++ of -1 gives 0 and len_ == 0 is r = 0.
Init ==
    /\ root_ = nil_
    /\ len_ \in MinLen..MaxGarbage
    /\ key = [a \in Addr |-> 0]
    /\ value = [a \in Addr |-> NoValue]
    /\ red = [a \in Addr |-> FALSE]
    /\ left = [a \in Addr |-> IF a = nil_ THEN nil_ ELSE NullPtr]
    /\ right = [a \in Addr |-> IF a = nil_ THEN nil_ ELSE NullPtr]
    /\ parent = [a \in Addr |-> IF a = nil_ THEN nil_ ELSE NullPtr]
    /\ allocated = {nil_}
    /\ op = "rb_tree"
    /\ ret = "void"
    /\ fixup_x = NullPtr
    /\ script = 0
    /\ ref = {}
    /\ dealloc_log = << >>
    /\ loops = [insert |-> 0, erase |-> 0]
    /\ old = [t |-> rbtree_constructed, ret |-> "void"]

\* insert(key) / insert(key, value): allocate, then unified_insert.
insert_call(k, v) ==
    /\ LET c  == allocate_addr(Tree, k)
           t0 == allocate(Tree, c, k, v, TRUE, nil_, nil_, NullPtr)
           t1 == unified_insert(t0, c)
       IN  /\ len_' = len_ + 1
           /\ Store(t1)
    /\ op' = "insert"
    /\ fixup_x' = NullPtr
    /\ ret' = "void"

\* insert, not called once len_ has reached MaxLen
Insert(k, v) ==
    /\ len_ < MaxLen
    /\ insert_call(k, v)

\* erase(key)
Erase(k) ==
    /\ len_ > MinLen
    /\ op' = "erase"
    /\ IF len_ = 0
       THEN /\ ret' = "false"
            /\ fixup_x' = NullPtr
            /\ UNCHANGED <<len_, heap>>
       ELSE /\ len_' = len_ - 1
            /\ LET z == search(Tree, k) IN
               IF z = element_not_found
               THEN /\ ret' = "element_not_found"
                    /\ fixup_x' = NullPtr
                    /\ UNCHANGED heap
               ELSE IF z = nil_
               THEN /\ ret' = "false"
                    /\ fixup_x' = NullPtr
                    /\ UNCHANGED heap
               ELSE LET t1 == erase_node(Tree, z)
                        u  == erase_unlink(Tree, z)
                    IN
                    /\ ret' = "true"
                    /\ fixup_x' = IF ~ u.y_original_color THEN u.x
                                  ELSE NullPtr
                    /\ Store(t1)

\* contains(key)
Contains(k) ==
    /\ op' = "contains"
    /\ LET z == search(Tree, k) IN
       ret' = IF z = element_not_found THEN "element_not_found"
              ELSE IF z # nil_ THEN "true" ELSE "false"
    /\ fixup_x' = NullPtr
    /\ UNCHANGED <<len_, heap>>

\* search(key); map::get and map::operator[] return its result.
Search(k) ==
    /\ op' = "search"
    /\ LET z == search(Tree, k) IN
       IF z = element_not_found
       THEN ret' = "element_not_found"
       ELSE ret' = "node"
    /\ fixup_x' = NullPtr
    /\ UNCHANGED <<len_, heap>>

\* ------------------------------------------------- observations of a heap
RECURSIVE Subtree(_, _)
\* addresses of the real nodes reached from x through left and right links,
\* following at most d links
Subtree(x, d) ==
    IF x = nil_ \/ d = 0 THEN {}
    ELSE {x} \cup Subtree(left[x], d - 1) \cup Subtree(right[x], d - 1)

Depth == MaxAddr + 1
Reach == Subtree(root_, Depth)
KeySet == {key[a] : a \in Reach}

TypeOK ==
    /\ root_ \in Addr
    /\ len_ \in MinLen..MaxLen
    /\ allocated \subseteq Addr
    /\ nil_ \in allocated

\* black-height of the subtree at x (the sentinel counts 1), or -1 when two
\* downward paths from some node of the subtree disagree
RECURSIVE BlackHeight(_, _)
BlackHeight(x, d) ==
    IF x = nil_ THEN 1
    ELSE IF d = 0 THEN -1
    ELSE LET l == BlackHeight(left[x], d - 1)
             r == BlackHeight(right[x], d - 1)
         IN  IF l = -1 \/ r = -1 \/ l # r THEN -1
             ELSE l + (IF red[x] THEN 0 ELSE 1)

\* no chain of left and right links from the root is longer than Depth: the
\* links below the root form no cycle
WellFormed == Subtree(root_, Depth) = Subtree(root_, Depth + 1)

\* The calls of the scenario "insert 10, 20, 30; erase 20; erase 20" on a
\* fresh set.  The engine only compares keys with <, so the keys 1, 2, 3 of
\* Keys stand for 10, 20, 30.
Scenario == << <<"insert", 1>>, <<"insert", 2>>, <<"insert", 3>>,
               <<"erase", 2>>, <<"erase", 2>> >>
OffScript == Len(Scenario) + 1

\* the position in Scenario after the call o(k)
script_after(o, k) ==
    IF script \in 0..(Len(Scenario) - 1) /\ Scenario[script + 1] = <<o, k>>
    THEN script + 1
    ELSE OffScript

\* the call o(k) is recorded; no reference set is kept, nothing is destroyed
Call(o, k) ==
    /\ script' = script_after(o, k)
    /\ UNCHANGED <<ref, dealloc_log, loops, old>>

\* The key-only engine (set form).
Next ==
    \/ \E k \in Keys : Insert(k, NoValue) /\ Call("insert", k)
    \/ \E k \in Keys : Erase(k) /\ Call("erase", k)
    \/ \E k \in Keys : Contains(k) /\ Call("contains", k)
    \/ \E k \in Keys : Search(k) /\ Call("search", k)

Spec == Init /\ [][Next]_vars

\* The key-value engine behind map.
NextMap ==
    \/ \E k \in MapKeys, v \in Values : Insert(k, v) /\ Call("insert", k)
    \/ \E k \in MapKeys : Erase(k) /\ Call("erase", k)
    \/ \E k \in MapKeys : Contains(k) /\ Call("contains", k)
    \/ \E k \in MapKeys : Search(k) /\ Call("search", k)

SpecMap == Init /\ [][NextMap]_vars

\* A reference set run side by side with the key-only engine: insert(k) of
\* a key the reference set does not hold, and erase(k) of a key it holds.
InsertNew(k) ==
    /\ k \notin ref
    /\ Insert(k, NoValue)
    /\ ref' = ref \cup {k}
    /\ script' = script_after("insert", k)
    /\ UNCHANGED <<dealloc_log, loops, old>>

\* insert(k) of any key
InsertAny(k) ==
    /\ Insert(k, NoValue)
    /\ ref' = ref \cup {k}
    /\ script' = script_after("insert", k)
    /\ UNCHANGED <<dealloc_log, loops, old>>

ErasePresent(k) ==
    /\ k \in ref
    /\ Erase(k)
    /\ ref' = ref \ {k}
    /\ script' = script_after("erase", k)
    /\ UNCHANGED <<dealloc_log, loops, old>>

\* distinct keys are inserted, keys that were inserted are erased
NextRoundTrip ==
    \/ \E k \in Keys : InsertNew(k)
    \/ \E k \in Keys : ErasePresent(k)

SpecRoundTrip == Init /\ [][NextRoundTrip]_vars

\* any key is inserted, keys of the reference set are erased
NextRefine ==
    \/ \E k \in Keys : InsertAny(k)
    \/ \E k \in Keys : ErasePresent(k)

SpecRefine == Init /\ [][NextRefine]_vars

\* The tree used as a queue of ascending keys: insert of the key that
\* follows the largest key present, erase of the smallest key present.
\* The iterations of the two fixup loops are recorded in loops.
PushBack(k) ==
    /\ \A j \in KeySet : j < k
    /\ k - 1 \in KeySet \cup {0}
    /\ insert_call(k, NoValue)
    /\ loops' = [loops EXCEPT !.insert = insert_iterations(Tree, k)]
    /\ script' = script_after("insert", k)
    /\ UNCHANGED <<ref, dealloc_log, old>>

PopFront(k) ==
    /\ k \in KeySet
    /\ \A j \in KeySet : k <= j
    /\ Erase(k)
    /\ loops' = [loops EXCEPT
                    !.erase = IF len_ = 0 THEN 0
                              ELSE erase_iterations(Tree, search(Tree, k))]
    /\ script' = script_after("erase", k)
    /\ UNCHANGED <<ref, dealloc_log, old>>

NextDeep ==
    \/ \E k \in DeepKeys : PushBack(k)
    \/ \E k \in DeepKeys : PopFront(k)

SpecDeep == Init /\ [][NextDeep]_vars

\* The two revisions side by side: the same call is made on the tree of
\* rb_tree.h and on the tree of rbtree.h.
BothInsert(k) ==
    /\ Insert(k, NoValue)
    /\ old' = [t |-> rbtree_insert(old.t, k), ret |-> "void"]
    /\ script' = script_after("insert", k)
    /\ UNCHANGED <<ref, dealloc_log, loops>>

BothErase(k) ==
    /\ Erase(k)
    /\ old' = rbtree_erase(old.t, k)
    /\ script' = script_after("erase", k)
    /\ UNCHANGED <<ref, dealloc_log, loops>>

BothContains(k) ==
    /\ Contains(k)
    /\ old' = rbtree_contains(old.t, k)
    /\ script' = script_after("contains", k)
    /\ UNCHANGED <<ref, dealloc_log, loops>>

NextAgree ==
    \/ \E k \in AgreeKeys : BothInsert(k)
    \/ \E k \in AgreeKeys : BothErase(k)
    \/ \E k \in AgreeKeys : BothContains(k)

SpecAgree == Init /\ [][NextAgree]_vars

\* ---------------------------------------------------------------- teardown
\* The work stack of clear is a vector of node addresses: push_back appends,
\* pop_back_move takes the last element.
push_back(stack, a) == Append(stack, a)
back(stack) == stack[Len(stack)]
pop_back(stack) == SubSeq(stack, 1, Len(stack) - 1)

\* clear, loop body: only the left child of the popped node is pushed
clear_push_left_only(t, node, stack) ==
    IF t.left[node] # nil_ THEN push_back(stack, t.left[node]) ELSE stack

\* clear, loop body: the children of the popped node that are not the
\* sentinel are pushed, left first
clear_push(t, node, stack) ==
    IF t.left[node] # nil_
    THEN IF t.right[node] # nil_
         THEN push_back(push_back(stack, t.left[node]), t.right[node])
         ELSE push_back(stack, t.left[node])
    ELSE IF t.right[node] # nil_
         THEN push_back(stack, t.right[node])
         ELSE stack

RECURSIVE clear_loop(_, _, _)
\* while (!stack.empty()): pop a node, push its children, deallocate it.
\* log is the sequence of the addresses deallocated so far.
clear_loop(t, stack, log) ==
    IF stack = << >> THEN [t |-> t, log |-> log]
    ELSE clear_loop(deallocate(t, back(stack)),
                    clear_push(t, back(stack), pop_back(stack)),
                    Append(log, back(stack)))

\* clear(x)
clear(t, x) ==
    IF x = nil_ THEN [t |-> t, log |-> << >>]
    ELSE clear_loop(t, push_back(<< >>, x), << >>)

\* ~rb_tree(): clear(root_), then the sentinel is deallocated
destroy_nil(c) == [t |-> deallocate(c.t, nil_), log |-> Append(c.log, nil_)]
destructor(t) == destroy_nil(clear(t, t.root))

\* ~rb_tree(); no member function is called on the object afterwards
Destroy ==
    /\ op # "~rb_tree"
    /\ Store(destructor(Tree).t)
    /\ dealloc_log' = destructor(Tree).log
    /\ op' = "~rb_tree"
    /\ ret' = "void"
    /\ fixup_x' = NullPtr
    /\ script' = OffScript
    /\ UNCHANGED <<len_, ref, loops, old>>

\* how insert completes when ChildrenAllocator::allocate fails
allocate_failed == "allocate_failed"

\* insert whose allocation fails after the element was counted
InsertAllocFails_counted(k, v) ==
    /\ len_ < MaxLen
    /\ op' = "insert"
    /\ ret' = allocate_failed
    /\ fixup_x' = NullPtr
    /\ len_' = len_ + 1
    /\ UNCHANGED heap

\* insert(key) / insert(key, value) when allocate fails: the allocation is
\* the argument of the call of unified_insert, so the failure leaves insert
\* before unified_insert is entered
InsertAllocFails(k, v) ==
    /\ len_ < MaxLen
    /\ op' = "insert"
    /\ ret' = allocate_failed
    /\ fixup_x' = NullPtr
    /\ UNCHANGED <<len_, heap>>

\* The key-only engine from construction to destruction, with an allocator
\* that may fail: inserts of new keys, erases of inserted keys, inserts that
\* fail to allocate, and the destructor.
NextLife ==
    \/ op # "~rb_tree" /\ NextRoundTrip
    \/ \E k \in Keys :
          /\ op # "~rb_tree"
          /\ InsertAllocFails(k, NoValue)
          /\ Call("insert", k)
    \/ Destroy

SpecLife == Init /\ [][NextLife]_vars

\* ----------------------------------------------------------------- claims

\* C1: after every insert or erase, for every real node, every key in its
\* left subtree is strictly less than its key and every key in its right
\* subtree is strictly greater.
C1_BstOrdering ==
    /\ WellFormed
    /\ \A n \in Reach :
         /\ \A m \in Subtree(left[n], Depth) : key[m] < key[n]
         /\ \A m \in Subtree(right[n], Depth) : key[n] < key[m]

\* a successful erase has left a tree of at least four nodes in which some
\* node has two real children
C1_Witness ==
    /\ op = "erase" /\ ret = "true"
    /\ \E n \in Reach : left[n] # nil_ /\ right[n] # nil_
    /\ Cardinality(Reach) >= 4

\* C2: after every insert or erase no red node has a red child.
C2_NoRedRed ==
    \A n \in Reach : red[n] => ~ red[left[n]] /\ ~ red[right[n]]

\* a red node with two real (black) children exists after an operation
C2_Witness ==
    /\ op \in {"insert", "erase"}
    /\ \E n \in Reach : red[n] /\ left[n] # nil_ /\ right[n] # nil_

\* C3: after every insert or erase, all downward paths from a real node to
\* the sentinel contain the same number of black nodes.
C3_BlackHeight ==
    \A n \in Reach : BlackHeight(n, Depth) # -1

\* delete_fixup ran in a tree that still has a black node below the root
C3_Witness ==
    /\ op = "erase" /\ ret = "true" /\ fixup_x # NullPtr
    /\ \E n \in Reach : n # root_ /\ ~ red[n]

\* C4: after construction and after every insert or erase the root is black
\* and the sentinel is black.
C4_RootSentinelBlack == ~ red[root_] /\ ~ red[nil_]

\* delete_fixup was entered with x equal to the sentinel and the tree is
\* not empty afterwards
C4_Witness ==
    /\ op = "erase" /\ ret = "true" /\ fixup_x = nil_
    /\ root_ # nil_

\* C5: after every insert or erase, size() is the number of real nodes
\* reachable from the root and empty() is true exactly when there is none.
C5_SizeIsCount ==
    op \in {"insert", "erase"} =>
        /\ size = Cardinality(Reach)
        /\ empty <=> (Cardinality(Reach) = 0)

\* C6: insert of a key that is already present changes neither size() nor
\* the stored value nor any link or colour, and deallocates the node that
\* was allocated for the call (the allocated cells are those of before).
C6_DuplicateInsertIdempotent ==
    [][\A k \in MapKeys, v \in Values :
         (k \in KeySet /\ Insert(k, v)) =>
             /\ len_' = len_
             /\ heap' = heap
             /\ allocated' = allocated]_vars

\* C7: erase of a key that is not present returns false, raises no failure
\* and leaves size() and the tree unchanged.
C7_AbsentErase ==
    [][\A k \in Keys :
         (k \notin KeySet /\ Erase(k)) =>
             /\ ret' = "false"
             /\ len_' = len_
             /\ heap' = heap]_vars

\* C8: erase of a key that is present returns true, decrements size() by
\* one, deallocates exactly the node that held the key, and the keys present
\* afterwards are the previous keys minus that key.
C8_PresentErase ==
    [][\A k \in Keys :
         (k \in KeySet /\ Erase(k)) =>
             /\ ret' = "true"
             /\ len_' = len_ - 1
             /\ allocated' = allocated \ {n \in Reach : key[n] = k}
             /\ KeySet' = KeySet \ {k}]_vars

\* C9: contains(key) completes with true if the key is present and with
\* false if it is absent, and leaves the tree unchanged.
C9_Contains ==
    [][\A k \in Keys :
         Contains(k) =>
             /\ ret' = (IF k \in KeySet THEN "true" ELSE "false")
             /\ len_' = len_
             /\ heap' = heap]_vars

\* C10: search of a missing key fails with element_not_found, search of a
\* present key returns the node whose key equals the argument; in both cases
\* the tree, its key set and size() are as before.
C10_Search ==
    [][op' = "search" =>
         LET ks == KeySet
             rs == Reach
             ksAfter == KeySet'
         IN  \A k \in Keys :
                 Search(k) =>
                     /\ heap' = heap
                     /\ len_' = len_
                     /\ ksAfter = ks
                     /\ k \notin ks => ret' = "element_not_found"
                     /\ k \in ks =>
                          /\ ret' = "node"
                          /\ search(Tree, k) \in rs
                          /\ key[search(Tree, k)] = k]_vars

\* a search missed in a tree of at least three nodes
C10_Witness ==
    /\ op = "search" /\ ret = "element_not_found"
    /\ Cardinality(Reach) >= 3

\* the keys visited by ++ from begin() up to end(); a walk that has not come
\* to end() after MaxAddr + 1 steps is cut there
Iteration == iterate(Tree, begin(Tree), MaxAddr + 1)

Ascending(s) == \A i \in 1..(Len(s) - 1) : s[i] < s[i + 1]

\* C11: after every operation, stepping with ++ from begin() to end() visits
\* strictly ascending keys and exactly size() elements; begin() is the
\* leftmost real node, or end() when the tree is empty.
C11_IterationInOrder ==
    /\ Ascending(Iteration)
    /\ Len(Iteration) = size
    /\ IF root_ = nil_ THEN begin(Tree) = end
       ELSE /\ begin(Tree) \in Reach
            /\ left[begin(Tree)] = nil_
            /\ \A n \in Reach : key[begin(Tree)] <= key[n]

\* the walk is ascending and
\* visits every reachable real node once
IterationVisitsAll ==
    /\ Ascending(Iteration)
    /\ Len(Iteration) = Cardinality(Reach)
    /\ {Iteration[i] : i \in 1..Len(Iteration)} = KeySet

\* C12: from a fresh tree, after N distinct keys were inserted and all N
\* were erased, size() is 0, begin() equals end(), the root is the sentinel
\* and no real node is left allocated.
C12_RoundTrip ==
    (op = "erase" /\ ref = {}) =>
        /\ size = 0
        /\ begin(Tree) = end
        /\ root_ = nil_
        /\ allocated = {nil_}

\* a tree from which every key has been removed holds no node: begin() is
\* end(), the root is the sentinel and only the sentinel is allocated
EmptyTreeHoldsNothing ==
    KeySet = {} =>
        /\ begin(Tree) = end
        /\ root_ = nil_
        /\ allocated = {nil_}

NoDuplicates(s) == \A i, j \in 1..Len(s) : i # j => s[i] # s[j]

\* C13: ~rb_tree() deallocates every reachable real node exactly once, then
\* the sentinel exactly once: nothing is deallocated twice, the sentinel is
\* deallocated last, and nothing is left allocated.
C13_Teardown ==
    [][op' = "~rb_tree" =>
         /\ NoDuplicates(dealloc_log')
         /\ {dealloc_log'[i] : i \in 1..Len(dealloc_log')}
                = Reach \cup {nil_}
         /\ dealloc_log'[Len(dealloc_log')] = nil_
         /\ allocated' = {}]_vars

\* a tree of at least four real nodes has been destroyed
C13_Witness ==
    /\ op = "~rb_tree"
    /\ Len(dealloc_log) >= 5
    /\ allocated = {}

ScenarioShape ==
    /\ script = 3 =>
          /\ key[root_] = 2 /\ ~ red[root_]
          /\ key[left[root_]] = 1 /\ red[left[root_]]
          /\ key[right[root_]] = 3 /\ red[right[root_]]
          /\ Iteration = <<1, 2, 3>>
    /\ script = 4 => Iteration = <<1, 3>>

\* C15: on a fresh set, after insert 10, 20, 30 the root is 20 and black
\* with the red children 10 and 30 and the walk yields 10, 20, 30; erase(20)
\* then returns true, size() is 2 and the walk yields 10, 30; a second
\* erase(20) returns false.  (1, 2, 3 stand for 10, 20, 30.)
C15_Scenario ==
    /\ ScenarioShape
    /\ script = 4 => (ret = "true" /\ size = 2)
    /\ script = 5 => ret = "false"

\* the last call of the scenario, whatever size() was before it
ScenarioSecondErase == script = 5 => ret = "false"

\* the child links of the sentinel point to the sentinel
SentinelChildrenSelf == left[nil_] = nil_ /\ right[nil_] = nil_

\* C16: after construction and after every insert or erase the left, right
\* and parent links of the sentinel all point to the sentinel.
C16_SentinelSelfLinks ==
    /\ SentinelChildrenSelf
    /\ parent[nil_] = nil_

\* C17: a freshly constructed tree is empty: the root is the sentinel,
\* size() is 0, empty() is true and begin() equals end().
C17_FreshTreeEmpty ==
    op = "rb_tree" =>
        /\ root_ = nil_
        /\ begin(Tree) = end
        /\ size = 0
        /\ empty

\* insert_fixup for insert(k): the loop exits within IterBound iterations,
\* with the heap that insert_fixup_loop computes, and the root is black
\* afterwards
InsertFixupEnds(t, c) ==
    /\ insert_fixup_iterations([t |-> t, z |-> c], IterBound) <= IterBound
    /\ insert_fixup_steps([t |-> t, z |-> c], IterBound).t
           = insert_fixup_loop(t, c)
    /\ ~ insert_fixup(t, c).red[insert_fixup(t, c).root]

\* delete_fixup for the erase that starts from r: the loop exits within
\* IterBound iterations and the x it ends with is black afterwards
DeleteFixupEnds(r) ==
    /\ delete_fixup_iterations(r, IterBound) <= IterBound
    /\ ~ delete_fixup(r.t, r.x).red[delete_fixup_loop(r.t, r.x).x]

\* C18: in every state, the insert_fixup loop of every insert of an absent
\* key and the delete_fixup loop of every erase of a present key exit after
\* finitely many iterations (at most IterBound; so did the loops of the last
\* insert and the last erase); insert_fixup ends with the root black and
\* delete_fixup with x black.
C18_FixupLoopsTerminate ==
    /\ loops.insert <= IterBound
    /\ loops.erase <= IterBound
    /\ \A k \in DeepKeys :
          IF k \notin KeySet
          THEN InsertFixupEnds(insert_before_fixup(Tree, k, k), k)
          ELSE ~ erase_unlink(Tree, search(Tree, k)).y_original_color =>
                   DeleteFixupEnds(
                       erase_before_fixup(
                           erase_unlink(Tree, search(Tree, k)),
                           search(Tree, k)))

\* the loop of insert_fixup iterated twice in the last insert, and the loop
\* of delete_fixup iterated twice in the erase that has just returned
C18_Witness ==
    /\ op = "erase" /\ ret = "true" /\ fixup_x # NullPtr
    /\ loops.insert >= 2
    /\ loops.erase >= 2

\* the reachable nodes with a key greater, or smaller, than that of n
Greater(n) == {m \in Reach : key[m] > key[n]}
Smaller(n) == {m \in Reach : key[m] < key[n]}

\* the node of the smallest key greater than that of n, end() if none
Successor(n) ==
    IF Greater(n) = {} THEN end
    ELSE CHOOSE m \in Greater(n) : \A o \in Greater(n) : key[m] <= key[o]

\* the node of the greatest key smaller than that of n, the sentinel if none
Predecessor(n) ==
    IF Smaller(n) = {} THEN nil_
    ELSE CHOOSE m \in Smaller(n) : \A o \in Smaller(n) : key[o] <= key[m]

\* C19: at every real node n, ++ yields the real node of the smallest key
\* greater than that of n, or end() when n holds the maximum; -- yields the
\* node of the greatest smaller key, or the sentinel when n holds the
\* minimum; ++ followed by -- returns to n when n does not hold the maximum.
C19_IteratorStepping ==
    \A n \in Reach :
        /\ operator_inc(Tree, n) = Successor(n)
        /\ operator_dec(Tree, n) = Predecessor(n)
        /\ Greater(n) # {} =>
              operator_dec(Tree, operator_inc(Tree, n)) = n

\* after an erase that left the parent link of the sentinel at a real node,
\* some node without right child is a right child and has a successor (++
\* climbs at least two links), and some node without left child is a left
\* child and has a predecessor
C19_Witness ==
    /\ op = "erase" /\ ret = "true" /\ parent[nil_] # nil_
    /\ \E n \in Reach :
          /\ right[n] = nil_ /\ n = right[parent[n]]
          /\ Greater(n) # {}
    /\ \E n \in Reach :
          /\ left[n] = nil_ /\ n = left[parent[n]]
          /\ Smaller(n) # {}

RECURSIVE InOrder(_, _)
\* the keys of the real nodes below x in in-order (left subtree, node, right
\* subtree), following at most d links
InOrder(x, d) ==
    IF x = nil_ \/ d = 0 THEN << >>
    ELSE InOrder(left[x], d - 1) \o << key[x] >> \o InOrder(right[x], d - 1)

RECURSIVE SortedSeq(_)
\* the elements of a finite set of integers in ascending order
SortedSeq(S) ==
    IF S = {} THEN << >>
    ELSE LET m == CHOOSE x \in S : \A y \in S : x <= y
         IN  << m >> \o SortedSeq(S \ {m})

\* C20: with a reference set run side by side (insert(k) adds k, erase(k) of
\* a key of the set removes k), after every operation the in-order key
\* sequence of the reachable real nodes is the reference set in ascending
\* order: no key is lost and none is duplicated.
C20_RefinesSet == InOrder(root_, Depth) = SortedSeq(ref)

\* C21: after every operation the parent of the root is the sentinel; every
\* real child of a reachable real node n has n as its parent; every
\* reachable real node is the root or a child of its parent; the reachable
\* real nodes form a tree without cycle and without sharing.
C21_LinksConsistent ==
    /\ parent[root_] = nil_
    /\ WellFormed
    /\ Len(InOrder(root_, Depth)) = Cardinality(Reach)
    /\ \A n \in Reach :
          /\ left[n] # nil_ => parent[left[n]] = n
          /\ right[n] # nil_ => parent[right[n]] = n
          /\ \/ n = root_
             \/ n = left[parent[n]]
             \/ n = right[parent[n]]

\* an erase has run delete_fixup and left at least five real nodes, and a
\* node other than the root has two real children
C21_Witness ==
    /\ op = "erase" /\ ret = "true" /\ fixup_x # NullPtr
    /\ Cardinality(Reach) >= 5
    /\ \E n \in Reach : n # root_ /\ left[n] # nil_ /\ right[n] # nil_

\* the three links of the cell at a refer to allocated cells
LinksLive(a) ==
    /\ left[a] \in allocated
    /\ right[a] \in allocated
    /\ parent[a] \in allocated

\* the links of the real nodes and the child links of the sentinel refer to
\* allocated cells, and no cell that is not allocated has been written
\* since it was deallocated
RealLinksLive ==
    /\ \A a \in allocated \ {nil_} : LinksLive(a)
    /\ left[nil_] \in allocated /\ right[nil_] \in allocated
    /\ \A a \in Addr \ allocated :
          /\ key[a] = 0 /\ value[a] = NoValue /\ ~ red[a]
          /\ left[a] = NullPtr /\ right[a] = NullPtr
          /\ parent[a] = NullPtr

\* C22: after every erase no left, right or parent link of an allocated
\* node, the parent link of the sentinel included, refers to a deallocated
\* node, so that -- from end() dereferences no freed node.
C22_NoDanglingLinks ==
    op = "erase" => \A a \in allocated : LinksLive(a)

RECURSIVE Shape(_, _, _)
\* the subtree of the heap t below x as a nested tuple of left subtree, key,
\* colour and right subtree (<< >> for the sentinel), to the depth d
Shape(t, x, d) ==
    IF x = nil_ \/ d = 0 THEN << >>
    ELSE << Shape(t, t.left[x], d - 1), t.key[x], t.red[x],
            Shape(t, t.right[x], d - 1) >>

\* the two trees have the same shape, keys and colours
SameTree == Shape(Tree, root_, Depth) = Shape(old.t, old.t.root, Depth)

\* C23: given the same calls from construction, the tree of rb_tree.h and
\* the tree of rbtree.h have the same shape, keys and colours after every
\* call, and each erase and each contains completes with the same boolean
\* in both.
C23_RevisionsAgree ==
    /\ SameTree
    /\ op \in {"erase", "contains"} => ret = old.ret

====
